---- MODULE Spec2Model ----
(***************************************************************************)
(* acertmgr, modes/dns/nsupdate.py: the RFC 2136 challenge handler.        *)
(*                                                                         *)
(* Two specifications share this module.                                   *)
(*   Spec     the handler instance: add_dns_record, remove_dns_record and  *)
(*            verify_dns_record, one action per call, against one          *)
(*            authoritative server holding a set of TXT records.           *)
(*   SpecSoa  the zone walk of _get_soa, one step per loop test, query     *)
(*            and ascent.                                                  *)
(* Names are sequences of labels, leftmost label first; the root is <<>>.  *)
(* Text (TXT values, presentation format) is a sequence of characters.     *)
(***************************************************************************)
EXTENDS Naturals, Sequences, FiniteSets

\* ------------------------------------------------------------------ bounds
\* Labels of the longest domain name given to the zone walk.
MaxLabels == 4
\* Labels of the longest challenge domain given to the handler.
HandlerLabels == 3
\* Resolvers in the system resolver configuration.
NumResolvers == 2
\* Distinct challenge tokens.
MaxTokens == 2
\* Resolvers in the resolver configuration of the handler's host.
HostResolvers == 1
\* Characters of a TSIG key name, at most.
MaxKeyNameLen == 2
\* Key blocks of a key file, at most.
MaxKeyBlocks == 2

\* ------------------------------------------------------------- DNS names
root == <<>>

\* dns.name.Name.parent(), for a name other than the root (the root has no
\* parent: NoParent is raised).
parent(name) == Tail(name)

DomainOf(k) == [i \in 1..k |-> k + 1 - i]

\* Inputs of the zone walk: every name from the root downwards.
SoaDomains == {DomainOf(k) : k \in 0..MaxLabels}

\* Challenge domains handed to the handler: the two longest names.
Domains == {DomainOf(HandlerLabels), DomainOf(HandlerLabels - 1)}

\* ------------------------------------------------------------------ text
Quote == "\""
Backslash == "\\"
Space == " "

\* Challenge tokens are base64url text: no quote, backslash or whitespace.
Token(i) == [j \in 1..i |-> "a"]

TxtValues == {Token(i) : i \in 1..MaxTokens}

\* A TXT rdata is a sequence of character strings; an unquoted token without
\* whitespace parses to a single string.
rdata_from_text(txtvalue) == <<txtvalue>>

RECURSIVE escapify(_)
escapify(s) ==
    IF s = <<>> THEN <<>>
    ELSE (IF Head(s) \in {Quote, Backslash} THEN <<Backslash, Head(s)>> ELSE <<Head(s)>>)
         \o escapify(Tail(s))

\* Presentation format of a TXT rdata: each string quoted and escaped,
\* strings separated by one space.
RECURSIVE to_text(_)
to_text(rdata) ==
    IF rdata = <<>> THEN <<>>
    ELSE LET one == <<Quote>> \o escapify(Head(rdata)) \o <<Quote>>
         IN  IF Tail(rdata) = <<>> THEN one ELSE one \o <<Space>> \o to_text(Tail(rdata))

RECURSIVE lstrip(_, _)
lstrip(s, c) == IF s # <<>> /\ Head(s) = c THEN lstrip(Tail(s), c) ELSE s

RECURSIVE rstrip(_, _)
rstrip(s, c) ==
    IF s # <<>> /\ s[Len(s)] = c THEN rstrip(SubSeq(s, 1, Len(s) - 1), c) ELSE s

strip(s, c) == rstrip(lstrip(s, c), c)

\* A record some other party left on the server: the one string "a" written
\* with its quotes as data.
QuotedRdata == << <<Quote>> \o Token(1) \o <<Quote>> >>

\* The TXT records the server can hold: the challenge records, and the
\* other party's record at the longest name.
RecordPool ==
    (Domains \X {rdata_from_text(v) : v \in TxtValues})
        \cup {<<DomainOf(HandlerLabels), QuotedRdata>>}

\* ------------------------------------------------------- hosts, addresses
\* No address / no server configured (Python None).
NoAddr == <<"none", "">>

\* The mname of the SOA answers, and the two ways a fixed update server is
\* configured: by host name or as a literal address.
MName == "ns.primary"
PinnedName == "ns.pinned"
PinnedLiteral == "192.0.2.1"

ServerConfigs == {"", PinnedName, PinnedLiteral}

\* REGEX_IP4 / REGEX_IP6 match and ipaddress.ip_address accepts the text.
IsIPLiteral(domain_or_ip) == domain_or_ip = PinnedLiteral

\* A resolver list of dns.resolver.get_default_resolver(), in configured order.
Nameservers(n) == [i \in 1..n |-> <<"resolver", i>>]

\* The list on the host the handler runs on.
DefaultNameservers == Nameservers(HostResolvers)

\* _lookup_dns_server: the outcomes of one call. A literal address is
\* returned without any lookup; otherwise getaddrinfo answers with a first
\* address or fails.
lookup_dns_server(domain_or_ip) ==
    IF IsIPLiteral(domain_or_ip)
    THEN {[raised |-> FALSE, ip |-> <<"literal", domain_or_ip>>, net |-> <<>>]}
    ELSE {[raised |-> FALSE, ip |-> <<"host", domain_or_ip>>,
           net |-> << <<"getaddrinfo", domain_or_ip>> >>],
          [raised |-> TRUE, ip |-> NoAddr,
           net |-> << <<"getaddrinfo", domain_or_ip>> >>]}

\* --------------------------------------------------------------- zone walk
\* What one resolver does with one SOA query: a NOERROR response carrying a
\* SOA record, a NOERROR response without one, a timeout, a response with
\* another rcode, another DNS exception.
SoaResponses == {"SOA", "NOERROR_NOSOA", "TIMEOUT", "RCODE", "DNSEXC"}

\* The body of the for loop over the nameservers, for one response.
QueryOutcome_rcode_next(response) ==
    CASE response = "SOA" -> "return"
      [] response = "NOERROR_NOSOA" -> "next"
      [] response = "TIMEOUT" -> "next"
      [] response = "RCODE" -> "next"
      [] response = "DNSEXC" -> "next"

QueryOutcome_nosoa_breaks(response) ==
    CASE response = "SOA" -> "return"
      [] response = "NOERROR_NOSOA" -> "break"
      [] response = "TIMEOUT" -> "next"
      [] response = "RCODE" -> "break"
      [] response = "DNSEXC" -> "break"

QueryOutcome_timeout_breaks(response) ==
    CASE response = "SOA" -> "return"
      [] response = "NOERROR_NOSOA" -> "next"
      [] response = "TIMEOUT" -> "break"
      [] response = "RCODE" -> "break"
      [] response = "DNSEXC" -> "break"

QueryOutcome(response) ==
    CASE response = "SOA" -> "return"
      [] response = "NOERROR_NOSOA" -> "next"
      [] response = "TIMEOUT" -> "next"
      [] response = "RCODE" -> "break"
      [] response = "DNSEXC" -> "break"

\* The for loop from nameserver i on, as the set of its possible runs:
\* whether a SOA answer ended it, and the queries it sent.
RECURSIVE query_nameservers(_, _, _)
query_nameservers(domain, nameservers, i) ==
    IF i > Len(nameservers) THEN {[found |-> FALSE, net |-> <<>>]}
    ELSE LET q == <<"soa", domain, nameservers[i]>>
         IN  UNION {
               CASE QueryOutcome(r) = "return" -> {[found |-> TRUE, net |-> <<q>>]}
                 [] QueryOutcome(r) = "break" -> {[found |-> FALSE, net |-> <<q>>]}
                 [] QueryOutcome(r) = "next" ->
                      {[found |-> o.found, net |-> <<q>> \o o.net] :
                          o \in query_nameservers(domain, nameservers, i + 1)}
               : r \in SoaResponses }

\* The while loop from the current domain on.
RECURSIVE soa_walk(_, _)
soa_walk(domain, nameservers) ==
    IF domain = root \/ parent(domain) = root
    THEN {[raised |-> TRUE, zone |-> root, mname |-> "", net |-> <<>>]}
    ELSE UNION {
           IF o.found
           THEN {[raised |-> FALSE, zone |-> domain, mname |-> MName, net |-> o.net]}
           ELSE {[raised |-> w.raised, zone |-> w.zone, mname |-> w.mname,
                  net |-> o.net \o w.net] : w \in soa_walk(parent(domain), nameservers)}
           : o \in query_nameservers(domain, nameservers, 1) }

\* _get_soa(domain, nameserver): the nameserver list, then the walk. Of the
\* queries of one call the handler's record keeps the nameservers they went
\* to.
get_soa(domain, nameserver) ==
    {[raised |-> w.raised, zone |-> w.zone, mname |-> w.mname,
      net |-> << <<"soa", domain, {w.net[k][3] : k \in 1..Len(w.net)}>> >>] :
        w \in soa_walk(domain,
                       IF nameserver # NoAddr THEN <<nameserver>> ELSE DefaultNameservers)}

\* _determine_zone_and_nameserverip, with self.nsupdate_server as argument.
determine_zone_and_nameserverip_walk_unpinned(server, domain) ==
    IF server # ""
    THEN UNION {
           IF l.raised
           THEN {[raised |-> TRUE, zone |-> root, nameserverip |-> NoAddr, net |-> l.net]}
           ELSE {[raised |-> w.raised, zone |-> w.zone,
                  nameserverip |-> IF w.raised THEN NoAddr ELSE l.ip,
                  net |-> l.net \o w.net] : w \in get_soa(domain, NoAddr)}
           : l \in lookup_dns_server(server) }
    ELSE UNION {
           IF w.raised
           THEN {[raised |-> TRUE, zone |-> root, nameserverip |-> NoAddr, net |-> w.net]}
           ELSE {[raised |-> l.raised, zone |-> w.zone, nameserverip |-> l.ip,
                  net |-> w.net \o l.net] : l \in lookup_dns_server(w.mname)}
           : w \in get_soa(domain, NoAddr) }

determine_zone_and_nameserverip(server, domain) ==
    IF server # ""
    THEN UNION {
           IF l.raised
           THEN {[raised |-> TRUE, zone |-> root, nameserverip |-> NoAddr, net |-> l.net]}
           ELSE {[raised |-> w.raised, zone |-> w.zone,
                  nameserverip |-> IF w.raised THEN NoAddr ELSE l.ip,
                  net |-> l.net \o w.net] : w \in get_soa(domain, l.ip)}
           : l \in lookup_dns_server(server) }
    ELSE UNION {
           IF w.raised
           THEN {[raised |-> TRUE, zone |-> root, nameserverip |-> NoAddr, net |-> w.net]}
           ELSE {[raised |-> l.raised, zone |-> w.zone, nameserverip |-> l.ip,
                  net |-> w.net \o l.net] : l \in lookup_dns_server(w.mname)}
           : w \in get_soa(domain, NoAddr) }

\* The outcomes of _determine_zone_and_nameserverip for every configured
\* server and every challenge domain.
DiscoveryOutcomes ==
    [server \in ServerConfigs, domain \in Domains |->
        determine_zone_and_nameserverip(server, domain)]

\* --------------------------------------------------- authoritative server
\* The TXT query of the poller: an answer section holding the server's TXT
\* records at the name (possibly none), a response with an error rcode and
\* an empty answer section, or a DNS exception (timeout and the like).
TxtResponses == {"ANSWER", "RCODE", "DNSEXC"}

\* The response to a signed update: applied, rejected with an rcode in an
\* otherwise valid response, rejected with a TSIG error that the DNS library
\* raises while reading the response, or no response in time.
UpdateResponses == {"NOERROR", "REFUSED", "NOTAUTH", "BADSIG", "TIMEOUT"}

\* dns.query.tcp raises for these instead of returning a response.
UpdateRaises == {"BADSIG", "TIMEOUT"}

\* What the server does with an accepted update: a record set is a set, an
\* add of a present record and a delete of an absent one change nothing.
ApplyUpdate(recs, update) ==
    CASE update.action = "add" -> recs \cup {<<update.owner, update.rdata>>}
      [] update.action = "delete_rr" -> recs \ {<<update.owner, update.rdata>>}
      [] update.action = "delete_rrset" -> {rr \in recs : rr[1] # update.owner}

\* ------------------------------------------------------- handler instance
VARIABLES
    keyring,               \* self.keyring: key name and secret
    keyalgorithm,          \* self.keyalgorithm
    nsupdate_server,       \* self.nsupdate_server, "" when not configured
    nsupdate_verify,       \* self.nsupdate_verify
    nsupdate_verified,     \* self.nsupdate_verified
    records,               \* the TXT records of the authoritative server
    call,                  \* the last call on the instance and how it ended
    verify_returned_true,  \* history: some verify_dns_record call returned True
    txt_confirmed,         \* history: the (domain, value) pairs a TXT check matched
    add_returned           \* history: some add_dns_record call returned normally

DEFAULT_KEY_ALGORITHM == "HMAC-MD5.SIG-ALG.REG.INT"

NoCall ==
    [op |-> "none", domain |-> root, txtvalue |-> <<>>, outcome |-> "return",
     value |-> "None", txt |-> "", base |-> "", rcode |-> "", present |-> FALSE,
     net |-> <<>>]

\* __init__ with the key given inline in the configuration.
HandlerInit ==
    /\ keyring = [name |-> "acme-key", secret |-> "c2VjcmV0"]
    /\ keyalgorithm = DEFAULT_KEY_ALGORITHM
    /\ nsupdate_server \in ServerConfigs
    /\ nsupdate_verify \in BOOLEAN
    /\ nsupdate_verified = FALSE
    /\ records \in SUBSET RecordPool
    /\ call = NoCall
    /\ verify_returned_true = FALSE
    /\ txt_confirmed = {}
    /\ add_returned = FALSE

\* The update message of add_dns_record.
add_update_library_algorithm(zone, domain, txtvalue) ==
    [zone |-> zone, keyring |-> keyring, keyalgorithm |-> "hmac-sha256",
     action |-> "add", owner |-> domain, rdata |-> rdata_from_text(txtvalue)]

add_update_sends_delete(zone, domain, txtvalue) ==
    [zone |-> zone, keyring |-> keyring, keyalgorithm |-> keyalgorithm,
     action |-> "delete_rr", owner |-> domain, rdata |-> rdata_from_text(txtvalue)]

add_update(zone, domain, txtvalue) ==
    [zone |-> zone, keyring |-> keyring, keyalgorithm |-> keyalgorithm,
     action |-> "add", owner |-> domain, rdata |-> rdata_from_text(txtvalue)]

\* The update message of remove_dns_record.
delete_update_whole_rrset(zone, domain, txtvalue) ==
    [zone |-> zone, keyring |-> keyring, keyalgorithm |-> keyalgorithm,
     action |-> "delete_rrset", owner |-> domain, rdata |-> rdata_from_text(txtvalue)]

delete_update(zone, domain, txtvalue) ==
    [zone |-> zone, keyring |-> keyring, keyalgorithm |-> keyalgorithm,
     action |-> "delete_rr", owner |-> domain, rdata |-> rdata_from_text(txtvalue)]

\* dns.query.tcp(update, nameserverip) and what the caller sees of it: the
\* returned response is not looked at.
SendUpdate_to_mname(op, domain, txtvalue, d, update, response) ==
    /\ records' = IF response = "NOERROR" THEN ApplyUpdate(records, update) ELSE records
    /\ call' = [op |-> op, domain |-> domain, txtvalue |-> txtvalue,
                outcome |-> IF response \in UpdateRaises THEN "raise" ELSE "return",
                value |-> "None", txt |-> "", base |-> "", rcode |-> response,
                present |-> <<update.owner, update.rdata>> \in records,
                net |-> d.net \o << <<"update", "tcp", <<"host", MName>>, update>> >>]

SendUpdate(op, domain, txtvalue, d, update, response) ==
    /\ records' = IF response = "NOERROR" THEN ApplyUpdate(records, update) ELSE records
    /\ call' = [op |-> op, domain |-> domain, txtvalue |-> txtvalue,
                outcome |-> IF response \in UpdateRaises THEN "raise" ELSE "return",
                value |-> "None", txt |-> "", base |-> "", rcode |-> response,
                present |-> <<update.owner, update.rdata>> \in records,
                net |-> d.net \o << <<"update", "tcp", d.nameserverip, update>> >>]

DiscoveryRaised(op, domain, txtvalue, d) ==
    call' = [op |-> op, domain |-> domain, txtvalue |-> txtvalue, outcome |-> "raise",
             value |-> "None", txt |-> "", base |-> "", rcode |-> "",
             present |-> <<domain, rdata_from_text(txtvalue)>> \in records, net |-> d.net]

add_dns_record ==
    /\ call.op = "none"
    /\ \E domain \in Domains, txtvalue \in TxtValues :
           \E d \in DiscoveryOutcomes[nsupdate_server, domain] :
               /\ IF d.raised
                  THEN DiscoveryRaised("add", domain, txtvalue, d) /\ UNCHANGED records
                  ELSE \E response \in UpdateResponses :
                           SendUpdate("add", domain, txtvalue, d,
                                      add_update(d.zone, domain, txtvalue), response)
               /\ add_returned' = (add_returned \/ call'.outcome = "return")
               /\ UNCHANGED <<keyring, keyalgorithm, nsupdate_server, nsupdate_verify,
                              nsupdate_verified, verify_returned_true, txt_confirmed>>

remove_dns_record ==
    /\ call.op = "none"
    /\ \E domain \in Domains, txtvalue \in TxtValues :
           \E d \in DiscoveryOutcomes[nsupdate_server, domain] :
               /\ IF d.raised
                  THEN DiscoveryRaised("remove", domain, txtvalue, d) /\ UNCHANGED records
                  ELSE \E response \in UpdateResponses :
                           SendUpdate("remove", domain, txtvalue, d,
                                      delete_update(d.zone, domain, txtvalue), response)
               /\ UNCHANGED <<keyring, keyalgorithm, nsupdate_server, nsupdate_verify,
                              nsupdate_verified, verify_returned_true, txt_confirmed,
                              add_returned>>

\* _check_txt_record_value for one response: True on a matching answer, None
\* (no return statement reached) without one, False on a DNS exception.
check_txt_record_value_any_answer(domain, txtvalue, response) ==
    CASE response = "DNSEXC" -> "False"
      [] response = "RCODE" -> "None"
      [] response = "ANSWER" ->
           IF \E rr \in records : rr[1] = domain THEN "True" ELSE "None"

check_txt_record_value(domain, txtvalue, response) ==
    CASE response = "DNSEXC" -> "False"
      [] response = "RCODE" -> "None"
      [] response = "ANSWER" ->
           IF \E rr \in records :
                 rr[1] = domain /\ strip(to_text(rr[2]), Quote) = txtvalue
           THEN "True" ELSE "None"

\* What _check_txt_record_value sends: one TXT query for the name to the
\* given address, over TCP or UDP.
check_txt_query_udp_then_tcp(domain, nameserverip, use_tcp) ==
    << <<"txt", "udp", nameserverip, domain>>, <<"txt", "tcp", nameserverip, domain>> >>

check_txt_query(domain, nameserverip, use_tcp) ==
    << <<"txt", IF use_tcp THEN "tcp" ELSE "udp", nameserverip, domain>> >>

\* The result of DNSChallengeHandler.verify_dns_record, the base class's
\* own verification policy.
DNSChallengeHandler_verify_dns_record == {"True", "False"}

\* The test that guards the authoritative check.
needs_check_ignoring_verified(verify, verified) == verify

needs_check(verify, verified) == verify /\ ~verified

verify_dns_record ==
    /\ call.op = "none"
    /\ \E domain \in Domains, txtvalue \in TxtValues :
           \E base \in DNSChallengeHandler_verify_dns_record :
               /\ IF needs_check(nsupdate_verify, nsupdate_verified)
                  THEN \E d \in DiscoveryOutcomes[nsupdate_server, domain] :
                         IF d.raised
                         THEN /\ DiscoveryRaised("verify", domain, txtvalue, d)
                              /\ UNCHANGED <<nsupdate_verified, verify_returned_true, txt_confirmed>>
                         ELSE \E response \in TxtResponses :
                              LET txt == check_txt_record_value(domain, txtvalue, response)
                                  net == d.net \o check_txt_query(domain, d.nameserverip, TRUE)
                              IN  IF txt = "True"
                                  THEN /\ nsupdate_verified' = TRUE
                                       /\ txt_confirmed' = txt_confirmed \cup {<<domain, txtvalue>>}
                                       /\ verify_returned_true' = (verify_returned_true \/ base = "True")
                                       /\ call' = [op |-> "verify", domain |-> domain,
                                                   txtvalue |-> txtvalue, outcome |-> "return",
                                                   value |-> base, txt |-> txt, base |-> base,
                                                   rcode |-> "",
                                                   present |-> <<domain, rdata_from_text(txtvalue)>> \in records,
                                                   net |-> net]
                                  ELSE /\ call' = [op |-> "verify", domain |-> domain,
                                                   txtvalue |-> txtvalue, outcome |-> "return",
                                                   value |-> "False", txt |-> txt, base |-> "",
                                                   rcode |-> "",
                                                   present |-> <<domain, rdata_from_text(txtvalue)>> \in records,
                                                   net |-> net]
                                       /\ UNCHANGED <<nsupdate_verified, verify_returned_true,
                                                      txt_confirmed>>
                  ELSE /\ call' = [op |-> "verify", domain |-> domain, txtvalue |-> txtvalue,
                                   outcome |-> "return", value |-> base, txt |-> "",
                                   base |-> base, rcode |-> "",
                                   present |-> <<domain, rdata_from_text(txtvalue)>> \in records,
                                   net |-> <<>>]
                       /\ verify_returned_true' = (verify_returned_true \/ base = "True")
                       /\ UNCHANGED <<nsupdate_verified, txt_confirmed>>
               /\ UNCHANGED <<keyring, keyalgorithm, nsupdate_server, nsupdate_verify, records,
                              add_returned>>

\* The calling workflow takes the result of the call; the instance is ready
\* for the next one.
caller_continues ==
    /\ call.op # "none"
    /\ call' = NoCall
    /\ UNCHANGED <<keyring, keyalgorithm, nsupdate_server, nsupdate_verify,
                   nsupdate_verified, records, verify_returned_true, txt_confirmed,
                   add_returned>>

handler_vars ==
    <<keyring, keyalgorithm, nsupdate_server, nsupdate_verify, nsupdate_verified,
      records, call, verify_returned_true, txt_confirmed, add_returned>>

\* ------------------------------------------------ _get_soa, step by step
VARIABLES
    soa_pc,           \* "idle", "while", "for", "ascend", "returned", "raised"
                      \* (the not-found error), "noparent" (parent() of the root)
    soa_arg,          \* the domain argument of the call
    soa_domain,       \* the local variable domain
    soa_nameservers,  \* the local variable nameservers
    soa_i,            \* position of the for loop in nameservers
    soa_row,          \* what each nameserver answers for soa_domain
    soa_log,          \* the queries sent so far, <<name, nameserver>>
    soa_zone          \* the returned zone

soa_vars ==
    <<soa_pc, soa_arg, soa_domain, soa_nameservers, soa_i, soa_row, soa_log, soa_zone>>


SoaIdle ==
    /\ soa_pc = "idle"
    /\ soa_arg = root
    /\ soa_domain = root
    /\ soa_nameservers = <<>>
    /\ soa_i = 1
    /\ soa_row = <<>>
    /\ soa_log = <<>>
    /\ soa_zone = root

\* The call _get_soa(domain, nameserver) up to the first loop test: one
\* given nameserver, or the system's resolvers.
SoaInit ==
    /\ soa_pc = "while"
    /\ soa_arg \in SoaDomains
    /\ soa_domain = soa_arg
    /\ soa_nameservers \in
          {Nameservers(n) : n \in 1..NumResolvers} \cup {<< <<"host", PinnedName>> >>}
    /\ soa_i = 1
    /\ soa_row = <<>>
    /\ soa_log = <<>>
    /\ soa_zone = root

\* while domain.parent() != dns.name.root: enter the body, where each
\* nameserver has its answer for this name, or leave the loop and raise
\* the not-found error; for the root, parent() itself raises NoParent.
SoaWhile_until_root ==
    /\ soa_pc = "while"
    /\ IF soa_domain # root
       THEN /\ soa_pc' = "for"
            /\ soa_i' = 1
            /\ soa_row' \in [1..Len(soa_nameservers) -> SoaResponses]
       ELSE /\ soa_pc' = "raised"
            /\ UNCHANGED <<soa_i, soa_row>>
    /\ UNCHANGED <<soa_arg, soa_domain, soa_nameservers, soa_log, soa_zone>>

SoaWhile ==
    /\ soa_pc = "while"
    /\ IF soa_domain = root
       THEN /\ soa_pc' = "noparent"
            /\ UNCHANGED <<soa_i, soa_row>>
       ELSE IF parent(soa_domain) # root
       THEN /\ soa_pc' = "for"
            /\ soa_i' = 1
            /\ soa_row' \in [1..Len(soa_nameservers) -> SoaResponses]
       ELSE /\ soa_pc' = "raised"
            /\ UNCHANGED <<soa_i, soa_row>>
    /\ UNCHANGED <<soa_arg, soa_domain, soa_nameservers, soa_log, soa_zone>>

\* One pass of the for loop: the query to nameservers[soa_i] and what its
\* response does to the loop.
SoaQuery ==
    /\ soa_pc = "for"
    /\ soa_i <= Len(soa_nameservers)
    /\ soa_log' = Append(soa_log, <<soa_domain, soa_nameservers[soa_i]>>)
    /\ LET outcome == QueryOutcome(soa_row[soa_i])
       IN  CASE outcome = "return" ->
                  /\ soa_pc' = "returned"
                  /\ soa_zone' = soa_domain
                  /\ UNCHANGED soa_i
             [] outcome = "break" ->
                  /\ soa_pc' = "ascend"
                  /\ UNCHANGED <<soa_i, soa_zone>>
             [] outcome = "next" ->
                  /\ soa_i' = soa_i + 1
                  /\ UNCHANGED <<soa_pc, soa_zone>>
    /\ UNCHANGED <<soa_arg, soa_domain, soa_nameservers, soa_row>>

\* The for loop has run through the list.
SoaForEnd ==
    /\ soa_pc = "for"
    /\ soa_i > Len(soa_nameservers)
    /\ soa_pc' = "ascend"
    /\ UNCHANGED <<soa_arg, soa_domain, soa_nameservers, soa_i, soa_row, soa_log, soa_zone>>

\* domain = domain.parent()
SoaAscend_same_name ==
    /\ soa_pc = "ascend"
    /\ soa_pc' = "while"
    /\ UNCHANGED <<soa_arg, soa_domain, soa_nameservers, soa_i, soa_row, soa_log, soa_zone>>

SoaAscend_two_labels ==
    /\ soa_pc = "ascend"
    /\ soa_domain' = parent(parent(soa_domain))
    /\ soa_pc' = "while"
    /\ UNCHANGED <<soa_arg, soa_nameservers, soa_i, soa_row, soa_log, soa_zone>>

SoaAscend ==
    /\ soa_pc = "ascend"
    /\ soa_domain' = parent(soa_domain)
    /\ soa_pc' = "while"
    /\ UNCHANGED <<soa_arg, soa_nameservers, soa_i, soa_row, soa_log, soa_zone>>

\* ------------------------------------------- _read_tsigkey, step by step
\* Key names are written with a letter and the dot of domain names.
KeyChars == {"a", "."}

KeyNames == UNION {[1..n -> KeyChars] : n \in 1..MaxKeyNameLen}

\* A well-formed key file: key blocks, each with a name, an algorithm and a
\* secret of its own, the names all written in quotes or all without. The
\* file may be unreadable.
KeyBlocks(names) ==
    [i \in 1..Len(names) |->
        [name |-> names[i], algorithm |-> <<"algorithm", i>>, secret |-> <<"secret", i>>]]

KeyFiles ==
    {[readable |-> FALSE, quoted |-> FALSE, blocks |-> <<>>]} \cup
    {[readable |-> TRUE, quoted |-> q, blocks |-> KeyBlocks(names)] :
        q \in BOOLEAN, names \in UNION {[1..n -> KeyNames] : n \in 0..MaxKeyBlocks}}

\* The name of a block as the file spells it between "key " and " {".
header(quoted, name) == IF quoted THEN <<Quote>> \o name \o <<Quote>> ELSE name

\* A regular expression made of literal characters and dots against a text
\* of the same length: a dot stands for any character.
pattern_matches(pattern, text) ==
    /\ Len(pattern) = Len(text)
    /\ \A i \in 1..Len(pattern) : pattern[i] = "." \/ pattern[i] = text[i]

\* key \"?%s\"? { with key_name put in as it is: an optional quote, the
\* name as a pattern, an optional quote.
key_pattern_matches(key_name, head) ==
    \E front \in {0, 1}, back \in {0, 1} :
        /\ Len(head) >= front + back
        /\ front = 1 => head[1] = Quote
        /\ back = 1 => head[Len(head)] = Quote
        /\ pattern_matches(key_name, SubSeq(head, 1 + front, Len(head) - back))

VARIABLES
    key_pc,      \* "idle", "open", "name", "data", "fields", "returned",
                 \* "raised_open" (IOError), "raised_decipher" (AttributeError)
    key_file,    \* the file at tsig_key_file
    key_arg,     \* the key_name argument, <<>> when none is given
    key_name,    \* the local key_name
    key_data,    \* the block the second search matched, by position, 0 before
    key_result   \* what the function returned

key_vars == <<key_pc, key_file, key_arg, key_name, key_data, key_result>>

vars == <<handler_vars, soa_vars, key_vars>>

NoKey == [name |-> <<>>, secret |-> <<>>, algorithm |-> <<>>]

KeyIdle ==
    /\ key_pc = "idle"
    /\ key_file = [readable |-> FALSE, quoted |-> FALSE, blocks |-> <<>>]
    /\ key_arg = <<>>
    /\ key_name = <<>>
    /\ key_data = 0
    /\ key_result = NoKey

\* The call _read_tsigkey(tsig_key_file, key_name).
KeyInit ==
    /\ key_pc = "open"
    /\ key_file \in KeyFiles
    /\ key_arg \in KeyNames \cup {<<>>}
    /\ key_name = key_arg
    /\ key_data = 0
    /\ key_result = NoKey

\* io.open and read: an unreadable file is an IOError.
KeyOpen ==
    /\ key_pc = "open"
    /\ key_pc' = IF key_file.readable THEN "name" ELSE "raised_open"
    /\ UNCHANGED <<key_file, key_arg, key_name, key_data, key_result>>

\* if not key_name: the name of the leftmost key block, or no match.
KeyName ==
    /\ key_pc = "name"
    /\ IF key_name # <<>>
       THEN key_pc' = "data" /\ UNCHANGED key_name
       ELSE IF key_file.blocks = <<>>
       THEN key_pc' = "raised_decipher" /\ UNCHANGED key_name
       ELSE key_pc' = "data" /\ key_name' = key_file.blocks[1].name
    /\ UNCHANGED <<key_file, key_arg, key_data, key_result>>

\* key_data: the leftmost block whose header the pattern built from key_name
\* matches, or no match.
KeyData ==
    /\ key_pc = "data"
    /\ LET found == {i \in 1..Len(key_file.blocks) :
                        key_pattern_matches(key_name,
                            header(key_file.quoted, key_file.blocks[i].name))}
       IN  IF found = {}
           THEN key_pc' = "raised_decipher" /\ UNCHANGED key_data
           ELSE /\ key_pc' = "fields"
                /\ key_data' = CHOOSE i \in found : \A j \in found : i <= j
    /\ UNCHANGED <<key_file, key_arg, key_name, key_result>>

\* algorithm and secret of key_data, the keyring under key_name, the return.
KeyFields ==
    /\ key_pc = "fields"
    /\ key_pc' = "returned"
    /\ key_result' = [name |-> key_name,
                      secret |-> key_file.blocks[key_data].secret,
                      algorithm |-> key_file.blocks[key_data].algorithm]
    /\ UNCHANGED <<key_file, key_arg, key_name, key_data>>

\* ---------------------------------------------------------- specifications
Init == HandlerInit /\ SoaIdle /\ KeyIdle

Next ==
    \/ add_dns_record /\ UNCHANGED <<soa_vars, key_vars>>
    \/ remove_dns_record /\ UNCHANGED <<soa_vars, key_vars>>
    \/ verify_dns_record /\ UNCHANGED <<soa_vars, key_vars>>
    \/ caller_continues /\ UNCHANGED <<soa_vars, key_vars>>

Spec == Init /\ [][Next]_vars

HandlerIdle ==
    /\ keyring = [name |-> "acme-key", secret |-> "c2VjcmV0"]
    /\ keyalgorithm = DEFAULT_KEY_ALGORITHM
    /\ nsupdate_server = ""
    /\ nsupdate_verify = TRUE
    /\ nsupdate_verified = FALSE
    /\ records = {}
    /\ call = NoCall
    /\ verify_returned_true = FALSE
    /\ txt_confirmed = {}
    /\ add_returned = FALSE

InitSoa == SoaInit /\ HandlerIdle /\ KeyIdle

NextSoa ==
    \/ SoaWhile /\ UNCHANGED <<handler_vars, key_vars>>
    \/ SoaQuery /\ UNCHANGED <<handler_vars, key_vars>>
    \/ SoaForEnd /\ UNCHANGED <<handler_vars, key_vars>>
    \/ SoaAscend /\ UNCHANGED <<handler_vars, key_vars>>

SpecSoa == InitSoa /\ [][NextSoa]_vars

\* _get_soa runs on one thread, statement after statement, and every query
\* ends with a response, a timeout or an error: a step that can be taken is
\* taken.
SpecSoaLive == SpecSoa /\ WF_vars(NextSoa)

InitKey == KeyInit /\ HandlerIdle /\ SoaIdle

NextKey ==
    \/ KeyOpen /\ UNCHANGED <<handler_vars, soa_vars>>
    \/ KeyName /\ UNCHANGED <<handler_vars, soa_vars>>
    \/ KeyData /\ UNCHANGED <<handler_vars, soa_vars>>
    \/ KeyFields /\ UNCHANGED <<handler_vars, soa_vars>>

SpecKey == InitKey /\ [][NextKey]_vars

\* ------------------------------------------------------------------ claims
\* A step that is a verify_dns_record call: the call record goes from none
\* to the call's result.
VerifyStep == call.op = "none" /\ call'.op = "verify"

ReturnedTrue(c) == c.outcome = "return" /\ c.value = "True"

\* C1, as stated: once a verify_dns_record call has returned true, every
\* later verify_dns_record call returns true and sends no network query.
C1_OnceTrueAlwaysTrue ==
    [][(VerifyStep /\ verify_returned_true) =>
           (ReturnedTrue(call') /\ call'.net = <<>>)]_vars

\* C1, amended: once a verify_dns_record call has returned true, every later
\* verify_dns_record call sends no network query of its own (no SOA walk, no
\* address lookup, no TXT query) and returns what the base class's
\* verify_dns_record returns.
C1_OnceTrueNoQueryBaseResult ==
    [][(VerifyStep /\ verify_returned_true) =>
           /\ call'.outcome = "return"
           /\ call'.net = <<>>
           /\ call'.base \in DNSChallengeHandler_verify_dns_record
           /\ call'.value = call'.base]_vars

\* A verify call on a verified instance, after an earlier call returned
\* true, that sent nothing and returned the base class's False.
C1_Witness ==
    /\ call.op = "verify"
    /\ nsupdate_verify /\ nsupdate_verified /\ verify_returned_true
    /\ call.net = <<>>
    /\ call.value = "False"

\* C2, as stated: with nsupdate_verify on, verify_dns_record(domain, value)
\* returns true only if a TXT query to the authoritative server for that
\* domain returned that value, in this call or an earlier one; in every
\* other case a call that returns returns false and the instance stays
\* unverified.
C2_TrueOnlyForConfirmedPair ==
    [][(VerifyStep /\ nsupdate_verify) =>
           /\ ReturnedTrue(call') => <<call'.domain, call'.txtvalue>> \in txt_confirmed'
           /\ (<<call'.domain, call'.txtvalue>> \notin txt_confirmed'
                  /\ call'.outcome = "return") =>
                 (call'.value = "False" /\ ~nsupdate_verified')]_vars

\* C2, amended: with nsupdate_verify on, a verify_dns_record call returns
\* true only if a TXT query to the authoritative server returned the value
\* asked for at the domain asked for in this call or in an earlier verify
\* call on the instance, whatever (domain, value) pair that earlier call had;
\* a check of this call matches only when the server holds the TXT record
\* (domain, value); and while no check has matched the call does not return
\* true and the instance stays unverified.
C2_TrueOnlyAfterSomeConfirmedPair ==
    [][(VerifyStep /\ nsupdate_verify) =>
           /\ ReturnedTrue(call') => txt_confirmed' # {}
           /\ call'.txt = "True" =>
                 /\ <<call'.domain, rdata_from_text(call'.txtvalue)>> \in records
                 /\ <<call'.domain, call'.txtvalue>> \in txt_confirmed'
                 /\ \E q \in 1..Len(call'.net) :
                       /\ call'.net[q][1] = "txt"
                       /\ call'.net[q][4] = call'.domain
           /\ nsupdate_verified' = (txt_confirmed' # {})
           /\ txt_confirmed' = {} => ~ReturnedTrue(call')]_vars

\* A verify call that returned true for a pair no TXT check ever matched,
\* on an instance verified through another pair.
C2_Witness ==
    /\ call.op = "verify"
    /\ nsupdate_verify
    /\ ReturnedTrue(call)
    /\ txt_confirmed # {}
    /\ <<call.domain, call.txtvalue>> \notin txt_confirmed

\* C3: a verify_dns_record call never raises on a DNS-level failure, the
\* zone and nameserver discovery included; every such failure makes it
\* return false.
C3_VerifyNeverRaises ==
    call.op = "verify" =>
        /\ call.outcome = "return"
        /\ call.txt \in {"None", "False"} => call.value = "False"

\* C4: when the server answers the signed add or delete with a rejecting
\* response code, add_dns_record / remove_dns_record raises.
C4_RejectedUpdateRaises ==
    (call.op \in {"add", "remove"} /\ call.rcode \in {"REFUSED", "NOTAUTH", "BADSIG"}) =>
        call.outcome = "raise"

\* C5: remove_dns_record does not raise on an instance on which no
\* add_dns_record call ever returned normally.
C5_RetractNeverPublishedDoesNotRaise ==
    (call.op = "remove" /\ ~add_returned) => call.outcome = "return"

\* The update message a call sent: the last thing on the wire.
SentUpdate(c) == c.net[Len(c.net)][4]

\* C6: a remove_dns_record(d, v) the server accepted leaves no TXT record
\* (d, v) on the server and changes no other record, at d or elsewhere.
C6_RetractRemovesOnlyThatRecord ==
    [][(call.op = "none" /\ call'.op = "remove" /\ call'.rcode = "NOERROR") =>
           /\ <<call'.domain, rdata_from_text(call'.txtvalue)>> \notin records'
           /\ records' = records \ {<<call'.domain, rdata_from_text(call'.txtvalue)>>}]_vars

\* An accepted retract of a record that was there, with another TXT record
\* at the same owner and a record at another owner still on the server.
C6_Witness ==
    /\ call.op = "remove" /\ call.rcode = "NOERROR" /\ call.present
    /\ <<call.domain, rdata_from_text(call.txtvalue)>> \notin records
    /\ \E rr \in records : rr[1] = call.domain
    /\ \E rr \in records : rr[1] # call.domain

\* C7: an add_dns_record(d, v) the server accepted sends one add of the TXT
\* record (d, v) and leaves that record on the server once; when the record
\* was there already (a second publish) the record set does not change.
C7_PublishTwiceIsPublishOnce ==
    [][(call.op = "none" /\ call'.op = "add" /\ call'.rcode = "NOERROR") =>
           LET rr == <<call'.domain, rdata_from_text(call'.txtvalue)>>
               update == SentUpdate(call')
           IN  /\ update.action = "add"
               /\ update.owner = call'.domain
               /\ update.rdata = rdata_from_text(call'.txtvalue)
               /\ Cardinality({x \in records' : x = rr}) = 1
               /\ records' = records \cup {rr}
               /\ rr \in records => records' = records]_vars

\* An accepted publish of a record the server already held.
C7_Witness ==
    /\ call.op = "add" /\ call.rcode = "NOERROR" /\ call.present
    /\ <<call.domain, rdata_from_text(call.txtvalue)>> \in records

\* The names of the queries sent so far.
LogName(k) == soa_log[k][1]

\* C8: the SOA queries go to the full domain first and then to each parent
\* in turn, one label at a time, no name skipped and none revisited, and
\* the returned zone is the name of the last query.
C8_AscendingOrder ==
    /\ soa_log # <<>> => LogName(1) = soa_arg
    /\ \A k \in 1..Len(soa_log) - 1 :
          LogName(k + 1) = LogName(k) \/ LogName(k + 1) = parent(LogName(k))
    /\ \A j, k \in 1..Len(soa_log) : j < k => soa_log[j] # soa_log[k]
    /\ \A j, k \in 1..Len(soa_log) : j < k => Len(LogName(j)) >= Len(LogName(k))
    /\ soa_pc = "returned" => soa_zone = LogName(Len(soa_log))

\* a.b.example.com. with one nameserver, where only example.com. answers:
\* the zone is example.com. after a.b.example.com. and b.example.com.
C8_Witness ==
    /\ soa_pc = "returned"
    /\ soa_arg = DomainOf(4)
    /\ soa_zone = DomainOf(2)
    /\ Len(soa_log) = 3
    /\ LogName(1) = DomainOf(4) /\ LogName(2) = DomainOf(3) /\ LogName(3) = DomainOf(2)

\* C9, as stated: the returned zone is the first name of the ascent for
\* which any configured resolver answers NOERROR with a SOA record: the walk
\* leaves no name that one of the resolvers answers so.
C9_FirstNameAnyResolverAnswers ==
    /\ soa_pc = "returned" =>
          (soa_zone = soa_domain /\ soa_row[soa_i] = "SOA")
    /\ soa_pc = "ascend" =>
          \A r \in 1..Len(soa_nameservers) : soa_row[r] # "SOA"

\* C9, amended: the returned zone is the first name of the ascent at which
\* a resolver, queried in configured order, answers NOERROR with a SOA
\* record before any resolver answers that name with another rcode or
\* fails with a DNS exception other than a timeout: the walk leaves a name
\* that a resolver answers with a SOA record only when an earlier resolver
\* in the list ended that name so.
C9_FirstNameAnsweredBeforeError ==
    /\ soa_pc = "returned" =>
          (soa_zone = soa_domain /\ soa_row[soa_i] = "SOA")
    /\ soa_pc = "ascend" =>
          \A r \in 1..Len(soa_nameservers) :
              soa_row[r] = "SOA" =>
                  \E j \in 1..(r - 1) : soa_row[j] \in {"RCODE", "DNSEXC"}

\* The walk leaves a name that the second resolver answers with a SOA
\* record, the first one having answered with an error rcode.
C9_Witness ==
    /\ soa_pc = "ascend"
    /\ Len(soa_nameservers) >= 2
    /\ soa_row[1] = "RCODE" /\ soa_row[2] = "SOA"

\* Nameserver j was queried for the current name, as the k-th query.
QueriedAt(j, k) ==
    /\ k \in 1..Len(soa_log)
    /\ soa_log[k] = <<soa_domain, soa_nameservers[j]>>

Queried(j) == \E k \in 1..Len(soa_log) : QueriedAt(j, k)

\* C10: when the walk leaves a name, every resolver whose query for it timed
\* out was followed by the query to the next resolver in the list for the
\* same name, and a name all of whose queries timed out was asked of every
\* resolver.
C10_TimeoutFallsThrough ==
    soa_pc = "ascend" =>
        /\ \A j \in 1..Len(soa_nameservers) - 1 :
              \A k \in 1..Len(soa_log) :
                  (QueriedAt(j, k) /\ soa_row[j] = "TIMEOUT") => QueriedAt(j + 1, k + 1)
        /\ (\A j \in 1..Len(soa_nameservers) : Queried(j) => soa_row[j] = "TIMEOUT") =>
              \A j \in 1..Len(soa_nameservers) : Queried(j)

\* The first resolver timed out and the second was asked for the same name
\* before the walk left it.
C10_Witness ==
    /\ soa_pc = "ascend"
    /\ Len(soa_nameservers) >= 2
    /\ soa_row[1] = "TIMEOUT"
    /\ Queried(1) /\ Queried(2)

\* C11: a resolver's answer with another rcode than NOERROR, or a DNS
\* exception other than a timeout, is the last query for that name: no
\* further resolver is asked and the walk leaves the name, later resolvers
\* untried.
C11_ErrorEndsName ==
    \A j \in 1..Len(soa_nameservers) :
        \A k \in 1..Len(soa_log) :
            (QueriedAt(j, k) /\ soa_pc \in {"for", "ascend", "returned"}
                /\ soa_row[j] \in {"RCODE", "DNSEXC"}) =>
                /\ k = Len(soa_log)
                /\ soa_pc = "ascend"
                /\ \A later \in (j + 1)..Len(soa_nameservers) : ~Queried(later)

\* The first resolver failed with a DNS exception and the walk leaves the
\* name without having asked the second.
C11_Witness ==
    /\ soa_pc = "ascend"
    /\ Len(soa_nameservers) >= 2
    /\ soa_row[1] = "DNSEXC"
    /\ Queried(1) /\ ~Queried(2)

\* The names on the way from the domain argument to the root, the root
\* excluded: its suffixes.
PathNames == {SubSeq(soa_arg, i, Len(soa_arg)) : i \in 1..Len(soa_arg)}

NameQueried(name) == \E k \in 1..Len(soa_log) : LogName(k) = name

\* C12, as stated: _get_soa raises the not-found error only after every
\* name on the path from the domain to the root was tried without a SOA
\* answer, and returns a zone only on such an answer.
C12_RaisesOnlyAfterWholePath ==
    /\ soa_pc = "raised" => \A name \in PathNames : NameQueried(name)
    /\ soa_pc = "ascend" => \A j \in 1..Len(soa_nameservers) :
                                 Queried(j) => soa_row[j] # "SOA"
    /\ soa_pc = "returned" =>
          /\ soa_row[soa_i] = "SOA"
          /\ soa_log[Len(soa_log)] = <<soa_domain, soa_nameservers[soa_i]>>
          /\ soa_zone = soa_domain

\* C12, amended: _get_soa raises the not-found error if and only if the walk
\* has ascended from the full domain to its single-label ancestor without
\* any query returning NOERROR with a SOA answer; it never raises while a
\* name of two or more labels on that path is untried (the single-label name
\* and the root are never tried), and never returns a zone without such an
\* answer. Called with the root itself it fails in parent() instead.
C12_RaisesOnlyAfterPathAboveTopLevel ==
    /\ soa_pc = "raised" =>
          /\ Len(soa_domain) = 1
          /\ \A name \in PathNames : Len(name) >= 2 => NameQueried(name)
    /\ soa_pc = "noparent" => (soa_arg = root /\ soa_log = <<>>)
    /\ soa_pc = "ascend" => \A j \in 1..Len(soa_nameservers) :
                                 Queried(j) => soa_row[j] # "SOA"
    /\ soa_pc = "returned" =>
          /\ soa_row[soa_i] = "SOA"
          /\ soa_log[Len(soa_log)] = <<soa_domain, soa_nameservers[soa_i]>>
          /\ soa_zone = soa_domain

\* The not-found error for a three-label domain, after its two names of two
\* or more labels were tried.
C12_Witness ==
    /\ soa_pc = "raised"
    /\ soa_arg = DomainOf(3)
    /\ NameQueried(DomainOf(3)) /\ NameQueried(DomainOf(2))
    /\ ~NameQueried(DomainOf(1))

\* C19: no SOA query is sent for a single-label name or for the root; a
\* single-label domain fails with the not-found error without any query,
\* and no single-label zone is returned.
C19_TopLevelNeverQueried ==
    /\ \A k \in 1..Len(soa_log) : Len(LogName(k)) >= 2
    /\ soa_pc \in {"for", "ascend"} => Len(soa_domain) >= 2
    /\ (Len(soa_arg) = 1 /\ soa_pc # "while") => (soa_pc = "raised" /\ soa_log = <<>>)
    /\ soa_pc = "returned" => Len(soa_zone) >= 2

\* A single-label domain: the not-found error, nothing sent.
C19_Witness ==
    /\ soa_pc = "raised"
    /\ Len(soa_arg) = 1
    /\ soa_log = <<>>

\* C20: a NOERROR response without a SOA record is followed by the query to
\* the next resolver for the same name; the walk leaves the name after such
\* a response only when it came from the last resolver of the list.
C20_NoSoaFallsThrough ==
    soa_pc = "ascend" =>
        \A j \in 1..Len(soa_nameservers) :
            \A k \in 1..Len(soa_log) :
                (QueriedAt(j, k) /\ soa_row[j] = "NOERROR_NOSOA") =>
                    IF j < Len(soa_nameservers)
                    THEN QueriedAt(j + 1, k + 1)
                    ELSE k = Len(soa_log)

\* The first resolver answered NOERROR without a SOA record and the second
\* was asked for the same name before the walk left it.
C20_Witness ==
    /\ soa_pc = "ascend"
    /\ Len(soa_nameservers) >= 2
    /\ soa_row[1] = "NOERROR_NOSOA"
    /\ Queried(1) /\ Queried(2)

\* What one call put on the network, by kind of entry.
NetKind(k) == call.net[k][1]

SoaEntries == {k \in 1..Len(call.net) : NetKind(k) = "soa"}

LookupEntries == {k \in 1..Len(call.net) : NetKind(k) = "getaddrinfo"}

SendEntries == {k \in 1..Len(call.net) : NetKind(k) \in {"update", "txt"}}

\* The address of the configured update server.
PinnedAddr == IF IsIPLiteral(nsupdate_server) THEN <<"literal", nsupdate_server>>
              ELSE <<"host", nsupdate_server>>

\* C13: with nsupdate_server configured, its address is resolved before any
\* SOA query, the SOA queries go to that address only (no system resolver,
\* no lookup of the SOA mname), and the address the call then uses is the
\* pinned one; without it, the SOA queries go to the system resolvers and
\* the address used is the resolution of the SOA mname, looked up after the
\* walk.
C13_PinnedServerForWalkAndUpdate ==
    IF nsupdate_server # ""
    THEN /\ \A k \in SoaEntries :
               /\ call.net[k][3] # {}
               /\ call.net[k][3] \subseteq {PinnedAddr}
               /\ IsIPLiteral(nsupdate_server) \/ \E l \in LookupEntries : l < k
         /\ \A l \in LookupEntries : call.net[l][2] = nsupdate_server
         /\ \A s \in SendEntries : call.net[s][3] = PinnedAddr
    ELSE /\ \A k \in SoaEntries :
               /\ call.net[k][3] # {}
               /\ call.net[k][3] \subseteq
                      {DefaultNameservers[i] : i \in 1..Len(DefaultNameservers)}
         /\ \A l \in LookupEntries :
               /\ call.net[l][2] = MName
               /\ \E k \in SoaEntries : k < l
         /\ \A s \in SendEntries :
               /\ call.net[s][3] = <<"host", MName>>
               /\ \E l \in LookupEntries : l < s

\* A publish on an instance pinned to a server given by name: lookup of that
\* name, the walk, the update to the pinned address.
C13_Witness ==
    /\ nsupdate_server = PinnedName
    /\ call.op = "add"
    /\ Len(call.net) = 3
    /\ NetKind(1) = "getaddrinfo" /\ NetKind(2) = "soa" /\ NetKind(3) = "update"
    /\ call.net[3][3] = <<"host", PinnedName>>

\* C15: the key name, secret and algorithm set by the constructor, and
\* nsupdate_server and nsupdate_verify, are changed by no call on the
\* instance, and every update message a call sends carries that key and that
\* algorithm.
C15_KeyAndConfigurationFixed ==
    [][/\ keyring' = keyring
       /\ keyalgorithm' = keyalgorithm
       /\ nsupdate_server' = nsupdate_server
       /\ nsupdate_verify' = nsupdate_verify
       /\ \A k \in 1..Len(call'.net) :
             call'.net[k][1] = "update" =>
                 /\ call'.net[k][4].keyring = keyring
                 /\ call'.net[k][4].keyalgorithm = keyalgorithm]_vars

\* A publish and a retract were both sent, each signed with the instance's
\* key: the retract is in flight now, the publish returned before it.
C15_Witness ==
    /\ add_returned
    /\ call.op = "remove"
    /\ Len(call.net) >= 1
    /\ NetKind(Len(call.net)) = "update"
    /\ SentUpdate(call).keyring = keyring
    /\ SentUpdate(call).keyalgorithm = keyalgorithm

\* The TXT queries of the call.
TxtEntries == {k \in 1..Len(call.net) : NetKind(k) = "txt"}

\* C16: a verify_dns_record call sends at most one TXT query to the
\* authoritative server; when that one check does not succeed, nothing
\* follows it in the call, which returns false.
C16_OneTxtQueryNoRetry ==
    call.op = "verify" =>
        /\ Cardinality(TxtEntries) <= 1
        /\ call.txt \in {"None", "False"} =>
              /\ TxtEntries = {Len(call.net)}
              /\ call.outcome = "return"
              /\ call.value = "False"

\* The authoritative server answered without the value: one TXT query, over
\* TCP, and the call returned false.
C16_Witness ==
    /\ call.op = "verify"
    /\ call.txt = "None"
    /\ Cardinality(TxtEntries) = 1
    /\ call.net[Len(call.net)][2] = "tcp"
    /\ call.value = "False"

\* A call of add_dns_record or remove_dns_record.
UpdateStep == call.op = "none" /\ call'.op \in {"add", "remove"}

\* C17: add_dns_record and remove_dns_record send an update only as the last
\* message of the call, after a discovery of that call that did not raise,
\* over TCP and to the address that discovery returned; when discovery
\* raises, the call raises, no update is sent, the records are untouched;
\* the verified flag is unchanged either way.
C17_UpdateOnlyAfterDiscovery ==
    [][UpdateStep =>
         LET net == call'.net
             sent == {k \in 1..Len(net) : net[k][1] = "update"}
             found == {d \in DiscoveryOutcomes[nsupdate_server, call'.domain] :
                          ~d.raised /\ d.net = SubSeq(net, 1, Len(net) - 1)}
         IN  /\ nsupdate_verified' = nsupdate_verified
             /\ sent \subseteq {Len(net)}
             /\ sent # {} =>
                   /\ net[Len(net)][2] = "tcp"
                   /\ found # {}
                   /\ \A d \in found : net[Len(net)][3] = d.nameserverip
             /\ sent = {} =>
                   /\ call'.outcome = "raise"
                   /\ \E d \in DiscoveryOutcomes[nsupdate_server, call'.domain] :
                         d.raised /\ d.net = net
                   /\ records' = records]_vars

\* A publish whose discovery raised on the lookup of the SOA mname: the walk
\* and the lookup are all the call sent, and it raised.
C17_Witness ==
    /\ call.op = "add"
    /\ call.outcome = "raise"
    /\ nsupdate_server = ""
    /\ Len(call.net) = 2
    /\ NetKind(1) = "soa" /\ NetKind(2) = "getaddrinfo"

\* C18: nsupdate_verified is false after construction and changes only from
\* false to true, in a verify_dns_record call whose TXT check succeeded;
\* add_dns_record and remove_dns_record leave it as it is, and a
\* verify_dns_record call on a verified instance sends nothing and makes no
\* TXT check.
C18_VerifiedIsLatch ==
    /\ ~nsupdate_verified
    /\ [][/\ nsupdate_verified' # nsupdate_verified =>
                /\ ~nsupdate_verified /\ nsupdate_verified'
                /\ VerifyStep
                /\ call'.txt = "True"
          /\ (VerifyStep /\ nsupdate_verified) =>
                (call'.net = <<>> /\ call'.txt = "")]_vars

\* A retract was made on a verified instance, and the flag is still set.
C18_Witness ==
    /\ call.op = "remove"
    /\ call.outcome = "return"
    /\ call.rcode = "NOERROR"
    /\ nsupdate_verified

\* The blocks of the file that carry the given name.
BlocksNamed(name) == {i \in 1..Len(key_file.blocks) : key_file.blocks[i].name = name}

\* C14: _read_tsigkey with a key name that no block of the file carries
\* fails with the configuration error and returns nothing; what it returns
\* for a given name is never the secret or algorithm of a block with another
\* name; with no name given, name, algorithm and secret are those of the
\* first block.
C14_WrongNameNeverAnotherKey ==
    /\ (key_arg # <<>> /\ key_file.readable /\ BlocksNamed(key_arg) = {}
            /\ key_pc \in {"returned", "raised_open", "raised_decipher"}) =>
          (key_pc = "raised_decipher" /\ key_result = NoKey)
    /\ (key_arg # <<>> /\ key_pc = "returned") =>
          /\ key_data \in BlocksNamed(key_arg)
          /\ key_result.secret = key_file.blocks[key_data].secret
          /\ key_result.algorithm = key_file.blocks[key_data].algorithm
    /\ (key_arg = <<>> /\ key_pc = "returned") =>
          key_result = [name |-> key_file.blocks[1].name,
                        secret |-> key_file.blocks[1].secret,
                        algorithm |-> key_file.blocks[1].algorithm]

\* _get_soa has returned a zone or raised.
SoaTerminated == soa_pc \in {"returned", "raised", "noparent"}

====
